---- MODULE Spec2Model ----
(***************************************************************************)
(* Model of the PV + heat-pump economics engine (calculateSystem) of the   *)
(* pv-calculator repository.                                               *)
(*                                                                         *)
(* JavaScript numbers are modelled as records [k, v]:                      *)
(*   k = "fin": a finite number, v its value in fixed point (v / SCALE),   *)
(*   k = "inf": an infinity, v = 1 or -1 its sign,                         *)
(*   k = "nan": not-a-number.                                              *)
(* Every arithmetic operator follows the IEEE-754 rules the engine relies  *)
(* on for division by zero, Infinity and NaN; finite results are rounded   *)
(* to the nearest multiple of 1/SCALE (doubles round at 2^-53 relative).   *)
(* Signed zeros are not distinguished.                                     *)
(***************************************************************************)
EXTENDS Integers, Sequences, FiniteSets, TLC

VARIABLES
  customerInputs,  \* the CustomerInputs record handed to calculateSystem
  expertSettings,  \* the ExpertSettings record handed to calculateSystem
  locals,     \* the function's constants at its return, NoCall before the call
  results,    \* the CalculationResults record returned, NoCall before the call
  inputs,     \* the subsidy form's FoerderInputs record
  result,     \* the subsidy form's displayed CalculationResult, Null for none
  error,      \* the subsidy form's error message
  settings,   \* the settings page's ExpertSettings
  store,      \* localStorage's 'expertSettings' entry, Null when absent
  shipped,    \* the module objects defaultExpertSettings and co2Scenarios.moderate
  mounted     \* the settings page's mount effect has run

energyVars == <<customerInputs, expertSettings, locals, results>>
kfwVars == <<inputs, result, error>>
adminVars == <<settings, store, shipped, mounted>>
vars ==
  <<customerInputs, expertSettings, locals, results, inputs, result, error,
    settings, store, shipped, mounted>>

\* Fixed-point resolution of a finite number: four decimal places.
SCALE == 100 * 100

----------------------------------------------------------------------------
(* JavaScript number values *)

Fin(v) == [k |-> "fin", v |-> v]
NaN == [k |-> "nan", v |-> 0]
PInf == [k |-> "inf", v |-> 1]
NInf == [k |-> "inf", v |-> -1]

\* The number literal n (an integer), and the literal n/d.
Num(n) == Fin(n * SCALE)
Frac(n, d) == Fin((n * SCALE) \div d)

IsNaN(a) == a.k = "nan"
IsFin(a) == a.k = "fin"
IsInf(a) == a.k = "inf"

Abs(x) == IF x < 0 THEN -x ELSE x
Sgn(x) == IF x < 0 THEN -1 ELSE IF x > 0 THEN 1 ELSE 0
\* Sign of a non-NaN number.
SignOf(a) == IF IsInf(a) THEN a.v ELSE Sgn(a.v)

\* a < b, a <= b, a > b, a >= b, a === b of JavaScript: false when either is NaN.
Lt(a, b) ==
  /\ ~IsNaN(a) /\ ~IsNaN(b)
  /\ IF IsInf(a) THEN a.v = -1 /\ ~(IsInf(b) /\ b.v = -1)
     ELSE IF IsInf(b) THEN b.v = 1
     ELSE a.v < b.v
NumEq(a, b) == ~IsNaN(a) /\ ~IsNaN(b) /\ a = b
Le(a, b) == Lt(a, b) \/ NumEq(a, b)
Gt(a, b) == Lt(b, a)
Ge(a, b) == Le(b, a)

\* a + b
Add(a, b) ==
  IF IsNaN(a) \/ IsNaN(b) THEN NaN
  ELSE IF IsInf(a) THEN (IF IsInf(b) /\ b.v # a.v THEN NaN ELSE a)
  ELSE IF IsInf(b) THEN b
  ELSE Fin(a.v + b.v)

\* -a
Neg(a) == IF IsNaN(a) THEN NaN ELSE [k |-> a.k, v |-> -a.v]

\* a - b
Sub(a, b) == Add(a, Neg(b))

\* |x * y| / SCALE for non-negative fixed-point x, y, rounded to nearest, by
\* partial products so that no intermediate exceeds the result's magnitude.
MulMag(x, y) ==
  LET xh == x \div SCALE
      xl == x % SCALE
      yh == y \div SCALE
      yl == y % SCALE
  IN  xh * yh * SCALE + xh * yl + xl * yh + (xl * yl + SCALE \div 2) \div SCALE

\* a * b
Mul(a, b) ==
  IF IsNaN(a) \/ IsNaN(b) THEN NaN
  ELSE IF IsInf(a) \/ IsInf(b)
    THEN (IF SignOf(a) = 0 \/ SignOf(b) = 0 THEN NaN
          ELSE IF SignOf(a) = SignOf(b) THEN PInf ELSE NInf)
  ELSE Fin(Sgn(a.v) * Sgn(b.v) * MulMag(Abs(a.v), Abs(b.v)))

\* Long division: the quotient of r / y continued for `digits` more decimal
\* digits (r < y), without forming r * SCALE.
RECURSIVE DivDigits(_, _, _)
DivDigits(r, y, digits) ==
  IF digits = 0 THEN (IF 2 * r >= y THEN 1 ELSE 0)
  ELSE LET t == r * 10
       IN  (t \div y) * (IF digits = 4 THEN 1000 ELSE IF digits = 3 THEN 100
                         ELSE IF digits = 2 THEN 10 ELSE 1)
           + DivDigits(t % y, y, digits - 1)

\* |x / y| * SCALE for non-negative fixed-point x and positive y.
DivMag(x, y) == (x \div y) * SCALE + DivDigits(x % y, y, 4)

\* a / b
Div(a, b) ==
  IF IsNaN(a) \/ IsNaN(b) THEN NaN
  ELSE IF IsInf(a) THEN (IF IsInf(b) THEN NaN
                         ELSE IF b.v < 0 THEN Neg(a) ELSE a)
  ELSE IF IsInf(b) THEN Fin(0)
  ELSE IF b.v = 0 THEN (IF a.v = 0 THEN NaN ELSE IF a.v > 0 THEN PInf ELSE NInf)
  ELSE Fin(Sgn(a.v) * Sgn(b.v) * DivMag(Abs(a.v), Abs(b.v)))

\* Math.min(a, b), Math.max(a, b): NaN when either argument is NaN.
MathMin(a, b) == IF IsNaN(a) \/ IsNaN(b) THEN NaN ELSE IF Lt(b, a) THEN b ELSE a
MathMax(a, b) == IF IsNaN(a) \/ IsNaN(b) THEN NaN ELSE IF Lt(a, b) THEN b ELSE a

\* Math.round(a): the nearest integer, halves towards +Infinity.
MathRound(a) ==
  IF IsFin(a) THEN Fin(((a.v + SCALE \div 2) \div SCALE) * SCALE) ELSE a

\* Math.pow(a, n) for an integer exponent n >= 0.
RECURSIVE MathPow(_, _)
MathPow(a, n) == IF n = 0 THEN Num(1) ELSE Mul(a, MathPow(a, n - 1))

\* Math.exp(-f) for a fixed-point fraction 0 <= f < SCALE: the Taylor series
\* sum_k (-f)^k / k!, term by term (term k = term k-1 * f / k, signs alternate).
RECURSIVE ExpSeries(_, _, _, _)
ExpSeries(f, term, k, sign) ==
  IF term = 0 \/ k > 12 THEN 0
  ELSE LET next == MulMag(term, f) \div k
       IN  sign * next + ExpSeries(f, next, k + 1, -sign)

\* e^-q for an integer q >= 0, by repeated multiplication with 1/e = 0.3679.
RECURSIVE ExpNegInt(_)
ExpNegInt(q) == IF q = 0 THEN SCALE ELSE MulMag(ExpNegInt(q - 1), 3679)

\* Math.exp(a) for a <= 0 (the engine only calls it on -batterySize / 5).
MathExp(a) ==
  IF IsNaN(a) THEN NaN
  ELSE IF IsInf(a) THEN (IF a.v < 0 THEN Fin(0) ELSE PInf)
  ELSE LET x == Abs(a.v)
           q == x \div SCALE
           f == x % SCALE
           negExp == MulMag(ExpNegInt(q), SCALE + ExpSeries(f, SCALE, 1, -1))
       IN  IF a.v <= 0 THEN Fin(negExp) ELSE Div(Num(1), Fin(negExp))

----------------------------------------------------------------------------
(* calculateSystem, step by step.  Each operator is one statement (or one   *)
(* block) of the function body and takes the values that statement reads.   *)

\* Max 85% autarky.
AutarkyCeiling == 85
\* First projected calendar year and number of projected years.
BaseYear == 2025
ProjectionYears == 10

\* 1. PV production
pvProduction(customer, expert) == Mul(customer.pvSize, expert.pvYieldPerKwp)

\* 2. E-car consumption (20 kWh per 100 km)
eCarConsumption(customer) ==
  IF customer.hasECar THEN Mul(Div(customer.eCarKm, Num(100)), Num(20)) ELSE Num(0)

\* heatPumpConsumption without the division by the JAZ.
heatPumpConsumption(customer, expert) ==
  Div(customer.heatingConsumption, expert.heatPumpJAZ)

\* 4. Total electricity demand
totalElectricityDemand(customer, eCar, heatPump) ==
  Add(Add(customer.householdConsumption, eCar), heatPump)

\* batteryBoost with the "1 -" dropped: the boost decays with the battery size.
batteryBoostDecaying(batterySize, batteryAutarkyBoost) ==
  IF Gt(batterySize, Num(0))
    THEN Mul(batteryAutarkyBoost, MathExp(Div(Neg(batterySize), Num(5))))
    ELSE Num(0)

\* 5. Battery boost: exponential saturation in the battery size.
batteryBoost(batterySize, batteryAutarkyBoost) ==
  IF Gt(batterySize, Num(0))
    THEN Mul(batteryAutarkyBoost,
             Sub(Num(1), MathExp(Div(Neg(batterySize), Num(5)))))
    ELSE Num(0)

\* The battery boost of the repository's other engine version: linear up to 10 kWh.
batteryBoostLinear(batterySize, batteryAutarkyBoost) ==
  IF Gt(batterySize, Num(0))
    THEN Mul(batteryAutarkyBoost, MathMin(Div(batterySize, Num(10)), Num(1)))
    ELSE Num(0)

\* emsBoost without the hasEMS test.
emsBoostAlways(customer, expert) == expert.emsAutarkyBoost

emsBoost(customer, expert) ==
  IF customer.hasEMS THEN expert.emsAutarkyBoost ELSE Num(0)

\* autarkyRate without the Math.min ceiling.
autarkyRateUncapped(baseAutarky, battery, ems) ==
  Add(Add(baseAutarky, battery), ems)

autarkyRate(baseAutarky, battery, ems) ==
  MathMin(Add(Add(baseAutarky, battery), ems), Num(AutarkyCeiling))

\* Self-consumption before storage losses.
selfConsumptionInitial(pv, demand, autarky) ==
  MathMin(pv, Mul(demand, Div(autarky, Num(100))))

batteryLossesFullCycles(batterySize, selfCons) ==
  Mul(Mul(batterySize, Num(365)), Frac(10, 100))

\* 10% round-trip losses on the part of the self-consumption that passes the
\* battery: 60% of it, at most one full cycle per day.
batteryLosses(batterySize, selfCons) ==
  Mul(MathMin(Mul(batterySize, Num(365)), Mul(selfCons, Frac(6, 10))),
      Frac(10, 100))

\* let selfConsumption ... ; if (batterySize > 0) selfConsumption -= batteryLosses
selfConsumption(batterySize, pv, demand, autarky) ==
  LET initial == selfConsumptionInitial(pv, demand, autarky)
  IN  IF Gt(batterySize, Num(0))
        THEN Sub(initial, batteryLosses(batterySize, initial))
        ELSE initial

selfConsumptionRate(selfCons, pv) == Mul(Div(selfCons, pv), Num(100))

gridElectricity(demand, selfCons) == Sub(demand, selfCons)

\* feedIn with the operands of the subtraction swapped.
feedInSwapped(pv, selfCons) == MathMax(Num(0), Sub(selfCons, pv))

feedIn(pv, selfCons) == MathMax(Num(0), Sub(pv, selfCons))

\* 6. Annual savings
yearlyElectricitySavings(selfCons, electricityPrice) ==
  Mul(selfCons, Div(electricityPrice, Num(100)))

yearlyFeedInRevenue(feed, feedInTariff) == Mul(feed, Div(feedInTariff, Num(100)))

emsBonus(customer, pv, demand, ems) ==
  IF customer.hasEMS
    THEN Mul(MathMin(pv, Mul(demand, Div(ems, Num(100)))),
             Div(customer.electricityPrice, Num(100)))
    ELSE Num(0)

yearlyTotalSavingsElectricityOnly(electricitySavings, feedInRevenue) ==
  electricitySavings

yearlyTotalSavings(electricitySavings, feedInRevenue) ==
  Add(electricitySavings, feedInRevenue)

\* 7. Heating comparison over 10 years

\* co2TaxSchedule.find(s => s.year === yearNumber): the index of the first
\* entry of that year, 0 for undefined.
FindYear(schedule, yearNumber) ==
  IF \E i \in 1..Len(schedule) : schedule[i].year = yearNumber
    THEN CHOOSE i \in 1..Len(schedule) :
           /\ schedule[i].year = yearNumber
           /\ \A j \in 1..(i - 1) : schedule[j].year # yearNumber
    ELSE 0

\* co2TaxPerKwh that falls back to the schedule's last entry for a missing year.
co2TaxPerKwhExtrapolated(expert, yearNumber) ==
  LET schedule == expert.co2TaxSchedule
      i == FindYear(schedule, yearNumber)
      j == IF i # 0 THEN i ELSE Len(schedule)
  IN  IF j # 0
        THEN Div(Mul(expert.co2EmissionsGas, schedule[j].pricePerTon), Num(1000))
        ELSE Num(0)

co2TaxPerKwh(expert, yearNumber) ==
  LET i == FindYear(expert.co2TaxSchedule, yearNumber)
  IN  IF i # 0
        THEN Div(Mul(expert.co2EmissionsGas, expert.co2TaxSchedule[i].pricePerTon),
                 Num(1000))
        ELSE Num(0)

gasCosts(customer, expert, year) ==
  LET gasInflation ==
        MathPow(Add(Num(1), Div(expert.gasPriceIncrease, Num(100))), year - 1)
      gasBasePrice == Div(customer.gasPrice, Num(100))
  IN  Mul(Add(Mul(gasBasePrice, gasInflation),
              co2TaxPerKwh(expert, BaseYear + (year - 1))),
          customer.heatingConsumption)

\* Heat pump electricity drawn from the grid (the part not covered by PV).
heatPumpGridElectricity(heatPump, selfCons, demand) ==
  MathMax(Num(0), Sub(heatPump, Mul(selfCons, Div(heatPump, demand))))

heatPumpCosts(customer, expert, hpGrid, year) ==
  LET electricityInflation ==
        MathPow(Add(Num(1), Div(expert.electricityPriceIncrease, Num(100))),
                year - 1)
      electricityPrice ==
        Mul(Div(customer.electricityPrice, Num(100)), electricityInflation)
  IN  Mul(hpGrid, electricityPrice)

\* One pass of the loop body: the row pushed for `year`.
heatingRow(customer, expert, heatPump, selfCons, demand, year) ==
  LET gas == gasCosts(customer, expert, year)
      hp == heatPumpCosts(customer, expert,
                          heatPumpGridElectricity(heatPump, selfCons, demand), year)
  IN  [year |-> BaseYear + (year - 1),
       gasCosts |-> MathRound(gas),
       heatPumpCosts |-> MathRound(hp),
       savings |-> MathRound(Sub(gas, hp))]

\* heatingComparison that skips (continue) the years the schedule has no entry for.
RECURSIVE ScheduledRows(_, _, _, _, _, _)
ScheduledRows(customer, expert, heatPump, selfCons, demand, n) ==
  IF n = 0 THEN << >>
  ELSE LET before == ScheduledRows(customer, expert, heatPump, selfCons, demand, n - 1)
       IN  IF FindYear(expert.co2TaxSchedule, BaseYear + (n - 1)) # 0
             THEN Append(before,
                         heatingRow(customer, expert, heatPump, selfCons, demand, n))
             ELSE before

heatingComparisonScheduledOnly(customer, expert, heatPump, selfCons, demand) ==
  ScheduledRows(customer, expert, heatPump, selfCons, demand, ProjectionYears)

\* for (let year = 1; year <= 10; year++) heatingComparison.push(...)
heatingComparison(customer, expert, heatPump, selfCons, demand) ==
  [year \in 1..ProjectionYears |->
     heatingRow(customer, expert, heatPump, selfCons, demand, year)]

\* 8. Amortization

\* rows.reduce((sum, y) => sum + y.savings, 0) over the first n rows
RECURSIVE SumSavings(_, _)
SumSavings(rows, n) ==
  IF n = 0 THEN Num(0) ELSE Add(SumSavings(rows, n - 1), rows[n].savings)

averageHeatingsSavings(rows) ==
  Div(SumSavings(rows, Len(rows)), Num(Len(rows)))

totalYearlySavingsHeatingSubtracted(yearlyTotal, averageHeating) ==
  Sub(yearlyTotal, averageHeating)

totalYearlySavingsIncludingHeating(yearlyTotal, averageHeating) ==
  Add(yearlyTotal, averageHeating)

amortizationYears(customer, totalYearly) ==
  Div(customer.totalInvestment, totalYearly)

profitAfter10Years(customer, totalYearly) ==
  Sub(Mul(totalYearly, Num(10)), customer.totalInvestment)

\* 9. Profit after 20 years
profitAfter20Years(customer, totalYearly) ==
  Sub(Mul(totalYearly, Num(20)), customer.totalInvestment)

\* The values of the function's constants when it returns.
calculateSystemLocals(customer, expert) ==
  LET pv == pvProduction(customer, expert)
      eCar == eCarConsumption(customer)
      heatPump == heatPumpConsumption(customer, expert)
      demand == totalElectricityDemand(customer, eCar, heatPump)
      battery == batteryBoost(customer.batterySize, expert.batteryAutarkyBoost)
      ems == emsBoost(customer, expert)
      autarky == autarkyRate(expert.baseAutarky, battery, ems)
      selfCons == selfConsumption(customer.batterySize, pv, demand, autarky)
      feed == feedIn(pv, selfCons)
      elSavings == yearlyElectricitySavings(selfCons, customer.electricityPrice)
      feedRevenue == yearlyFeedInRevenue(feed, expert.feedInTariff)
      rows == heatingComparison(customer, expert, heatPump, selfCons, demand)
      avgHeating == averageHeatingsSavings(rows)
      totalYearly ==
        totalYearlySavingsIncludingHeating(yearlyTotalSavings(elSavings, feedRevenue),
                                           avgHeating)
  IN  [pvProduction |-> pv,
       eCarConsumption |-> eCar,
       heatPumpConsumption |-> heatPump,
       totalElectricityDemand |-> demand,
       batteryBoost |-> battery,
       emsBoost |-> ems,
       autarkyRate |-> autarky,
       selfConsumption |-> selfCons,
       selfConsumptionRate |-> selfConsumptionRate(selfCons, pv),
       gridElectricity |-> gridElectricity(demand, selfCons),
       feedIn |-> feed,
       yearlyElectricitySavings |-> elSavings,
       yearlyFeedInRevenue |-> feedRevenue,
       emsBonus |-> emsBonus(customer, pv, demand, ems),
       heatingComparison |-> rows,
       averageHeatingsSavings |-> avgHeating,
       totalYearlySavingsIncludingHeating |-> totalYearly,
       amortizationYears |-> amortizationYears(customer, totalYearly),
       profitAfter20Years |-> profitAfter20Years(customer, totalYearly)]

\* return { ... }: the CalculationResults record built from the locals.
returnRecord(l) ==
  [yearlyElectricitySavings |-> MathRound(l.yearlyElectricitySavings),
   yearlyFeedInRevenue |-> MathRound(l.yearlyFeedInRevenue),
   emsBonus |-> MathRound(l.emsBonus),
   yearlyHeatingSavings |-> MathRound(l.averageHeatingsSavings),
   yearlyTotalSavings |-> MathRound(l.totalYearlySavingsIncludingHeating),
   pvProduction |-> MathRound(l.pvProduction),
   selfConsumption |-> MathRound(l.selfConsumption),
   feedIn |-> MathRound(l.feedIn),
   autarkyRate |-> MathRound(l.autarkyRate),
   selfConsumptionRate |-> MathRound(l.selfConsumptionRate),
   eCarConsumption |-> MathRound(l.eCarConsumption),
   heatPumpConsumption |-> MathRound(l.heatPumpConsumption),
   totalElectricityDemand |-> MathRound(l.totalElectricityDemand),
   gridElectricity |-> MathRound(l.gridElectricity),
   heatingComparison |-> l.heatingComparison,
   amortizationYears |-> Div(MathRound(Mul(l.amortizationYears, Num(10))), Num(10)),
   profitAfter20Years |-> MathRound(l.profitAfter20Years)]

calculateSystem(customer, expert) ==
  returnRecord(calculateSystemLocals(customer, expert))

\* calculateHeatingScenario(customer, expert, co2Schedule, years): the gas
\* costs of the first `years` projected years under another CO2 schedule.
calculateHeatingScenario(customer, expert, co2Schedule, years) ==
  [year \in 1..years |->
     [year |-> BaseYear + (year - 1),
      gasCosts |->
        MathRound(gasCosts(customer, [expert EXCEPT !.co2TaxSchedule = co2Schedule],
                           year))]]

----------------------------------------------------------------------------
(* CO2-tax schedules *)

Entry(y, p) == [year |-> y, pricePerTon |-> Num(p)]

\* co2Scenarios.moderate, the schedule of defaultExpertSettings
co2ScenariosModerate ==
  << Entry(2025, 55), Entry(2026, 60), Entry(2027, 68), Entry(2028, 76),
     Entry(2029, 84), Entry(2030, 92), Entry(2031, 96), Entry(2032, 100),
     Entry(2033, 100), Entry(2034, 100) >>

defaultExpertSettings ==
  [pvYieldPerKwp |-> Num(1000),
   heatPumpJAZ |-> Num(4),
   baseAutarky |-> Num(30),
   batteryAutarkyBoost |-> Num(25),
   emsAutarkyBoost |-> Num(15),
   feedInTariff |-> Frac(786, 100),
   electricityPriceIncrease |-> Frac(125, 100),
   gasPriceIncrease |-> Num(2),
   co2TaxSchedule |-> co2ScenariosModerate,
   co2EmissionsGas |-> Frac(24, 100)]

\* The customer profile the page starts with.
referenceCustomer ==
  [householdConsumption |-> Num(4000),
   heatingConsumption |-> Num(24000),
   hasECar |-> FALSE,
   eCarKm |-> Num(15000),
   pvSize |-> Num(10),
   batterySize |-> Num(10),
   hasEMS |-> TRUE,
   totalInvestment |-> Num(35000),
   electricityPrice |-> Num(28),
   gasPrice |-> Num(11)]

----------------------------------------------------------------------------
(* The heat-pump subsidy calculator (WaermepumpenFoerderrechner) *)

\* null, and the undefined of an absent reason
Null == [null |-> TRUE]
Undefined == "undefined"

\* !x for a number x: true for 0 and NaN
Falsy(x) == IsNaN(x) \/ (IsFin(x) /\ x.v = 0)

\* useState<FoerderInputs>({...}): the form's first inputs
initialInputs ==
  [buildingType |-> "",
   residentialUnits |-> Num(1),
   selfUse |-> FALSE,
   ownershipShare |-> Num(0),
   totalCosts |-> Num(0),
   heatPumpType |-> "air",
   oldHeatingType |-> "",
   oldHeatingAge |-> "",
   incomeBracket |-> "over_40k",
   naturalRefrigerant |-> FALSE]

\* CONFIG.RATES and CONFIG.MAX_RATES
RateBase == 30
RateEfficiency == 5
RateSpeed == 20
RateIncome == 30
MaxRateSelfOccupier == 70
MaxRateLandlord == 35

isSelfOccupierAnyMultiFamily(inp) ==
  inp.buildingType \in {"single_family_home", "condominium_assoc", "multi_family_home"}

isSelfOccupier(inp) ==
  \/ inp.buildingType = "single_family_home"
  \/ inp.buildingType = "condominium_assoc"
  \/ (inp.buildingType = "multi_family_home" /\ inp.selfUse)

getMaxEligibleCostsNoExtension(units) ==
  IF Falsy(units) \/ Le(units, Num(1)) THEN Num(30000)
  ELSE Add(Num(30000), Mul(MathMin(Num(5), Sub(units, Num(1))), Num(15000)))

getMaxEligibleCosts(units) ==
  IF Falsy(units) \/ Le(units, Num(1)) THEN Num(30000)
  ELSE LET costs ==
             Add(Num(30000),
                 Mul(MathMin(Num(5), Sub(units, Num(1))), Num(15000)))
       IN  IF Gt(units, Num(6))
             THEN Add(costs, Mul(Sub(units, Num(6)), Num(8000)))
             ELSE costs

\* defaultBonus(reason), and a granted bonus {rate, granted: true}
defaultBonus(reason) == [rate |-> Num(0), granted |-> FALSE, reason |-> reason]
grantedBonus(rate) == [rate |-> Num(rate), granted |-> TRUE, reason |-> Undefined]

ReasonNotMet == "Voraussetzungen nicht erfuellt"
ReasonSelfOccupierOnly == "Nur fuer Selbstnutzer anwendbar"
ReasonNeedsMoreData ==
  "Fuer eine Pruefung sind weitere Angaben noetig (im Rechner nur fuer Selbstnutzer)."
ReasonHeatingNotRelevant == "Heizungstyp/-alter nicht bonusrelevant"
ReasonIncome == "Einkommen > 40.000 EUR"

quickBonusTypes == {"gasetagen", "oel", "kohle", "nachtspeicher"}
ageDependentTypes == {"gaskessel", "biomasse"}

efficiencyBonusUnscoped(inp) ==
  IF inp.heatPumpType = "ground" \/ inp.heatPumpType = "water"
     \/ inp.naturalRefrigerant
    THEN grantedBonus(RateEfficiency)
  ELSE defaultBonus(ReasonNotMet)

\* Effizienzbonus
efficiencyBonus(inp) ==
  IF isSelfOccupier(inp)
     /\ (inp.heatPumpType = "ground" \/ inp.heatPumpType = "water"
         \/ inp.naturalRefrigerant)
    THEN grantedBonus(RateEfficiency)
  ELSE IF ~isSelfOccupier(inp) THEN defaultBonus(ReasonNeedsMoreData)
  ELSE defaultBonus(ReasonNotMet)

speedGrantedIgnoringAge(inp) ==
  inp.oldHeatingType \in quickBonusTypes \cup ageDependentTypes

\* Klimageschwindigkeitsbonus
speedGranted(inp) ==
  \/ inp.oldHeatingType \in quickBonusTypes
  \/ (inp.oldHeatingType \in ageDependentTypes /\ inp.oldHeatingAge = "older_20")

speedBonusUnscoped(inp) ==
  IF inp.oldHeatingType \in quickBonusTypes THEN grantedBonus(RateSpeed)
  ELSE defaultBonus(ReasonHeatingNotRelevant)

speedBonus(inp) ==
  IF ~isSelfOccupier(inp) THEN defaultBonus(ReasonSelfOccupierOnly)
  ELSE IF speedGranted(inp) THEN grantedBonus(RateSpeed)
  ELSE defaultBonus(ReasonHeatingNotRelevant)

incomeBonusAnyBracket(inp) ==
  IF ~isSelfOccupier(inp) THEN defaultBonus(ReasonSelfOccupierOnly)
  ELSE grantedBonus(RateIncome)

\* Einkommensbonus
incomeBonus(inp) ==
  IF ~isSelfOccupier(inp) THEN defaultBonus(ReasonSelfOccupierOnly)
  ELSE IF inp.incomeBracket = "under_40k" THEN grantedBonus(RateIncome)
  ELSE defaultBonus(ReasonIncome)

determineBonuses(inp) ==
  [efficiency |-> efficiencyBonus(inp),
   speed |-> speedBonus(inp),
   income |-> incomeBonus(inp)]

ErrBuildingType == "Bitte waehlen Sie einen Gebaeudetyp aus."
ErrTotalCosts == "Bitte geben Sie gueltige Gesamtkosten an."
ErrUnits == "Bitte geben Sie fuer ein MFH/WEG mind. 2 Wohneinheiten an."
ErrOwnershipShare == "Bitte geben Sie Ihren Miteigentumsanteil an."
ErrOldHeating == "Bitte geben Sie die bestehende Heizung an."
ErrOldHeatingAge == "Bitte geben Sie das Alter Ihrer Gas-/Biomasseheizung an."

\* Validierung: the six tests, each true when its input is missing.
buildingTypeMissing(inp) == inp.buildingType = ""
totalCostsInvalid(inp) == Falsy(inp.totalCosts) \/ Le(inp.totalCosts, Num(0))
unitsInvalid(inp) ==
  /\ inp.buildingType \in {"multi_family_home", "condominium_assoc"}
  /\ (Falsy(inp.residentialUnits) \/ Lt(inp.residentialUnits, Num(2)))
ownershipShareNeverMissing(inp) == FALSE
ownershipShareMissing(inp) ==
  /\ inp.buildingType = "condominium_assoc"
  /\ (Falsy(inp.ownershipShare) \/ Le(inp.ownershipShare, Num(0)))
oldHeatingTypeMissing(inp) == isSelfOccupier(inp) /\ inp.oldHeatingType = ""
oldHeatingAgeMissing(inp) ==
  /\ isSelfOccupier(inp)
  /\ inp.oldHeatingType \in ageDependentTypes
  /\ inp.oldHeatingAge = ""

validationErrorHeatingFirst(inp) ==
  IF buildingTypeMissing(inp) THEN ErrBuildingType
  ELSE IF oldHeatingTypeMissing(inp) THEN ErrOldHeating
  ELSE IF totalCostsInvalid(inp) THEN ErrTotalCosts
  ELSE IF unitsInvalid(inp) THEN ErrUnits
  ELSE IF ownershipShareMissing(inp) THEN ErrOwnershipShare
  ELSE IF oldHeatingAgeMissing(inp) THEN ErrOldHeatingAge
  ELSE ""

\* The message of the first failing test, "" when all pass.
validationError(inp) ==
  IF buildingTypeMissing(inp) THEN ErrBuildingType
  ELSE IF totalCostsInvalid(inp) THEN ErrTotalCosts
  ELSE IF unitsInvalid(inp) THEN ErrUnits
  ELSE IF ownershipShareMissing(inp) THEN ErrOwnershipShare
  ELSE IF oldHeatingTypeMissing(inp) THEN ErrOldHeating
  ELSE IF oldHeatingAgeMissing(inp) THEN ErrOldHeatingAge
  ELSE ""

unitsOfAnyBuilding(inp) == inp.residentialUnits

units(inp) ==
  IF inp.buildingType = "single_family_home" THEN Num(1) ELSE inp.residentialUnits

eligibleCosts(inp) == MathMin(inp.totalCosts, getMaxEligibleCosts(units(inp)))

baseRate(bonuses) == Add(Num(RateBase), bonuses.efficiency.rate)
personalBonusRate(bonuses) == Add(bonuses.speed.rate, bonuses.income.rate)
totalRate(bonuses) == Add(baseRate(bonuses), personalBonusRate(bonuses))
maxRate(inp) ==
  IF isSelfOccupier(inp) THEN Num(MaxRateSelfOccupier) ELSE Num(MaxRateLandlord)

finalRateUncapped(inp, bonuses) == totalRate(bonuses)
finalRate(inp, bonuses) == MathMin(totalRate(bonuses), maxRate(inp))

\* WEG / MFH (Selbstnutzer): the common and the personal part
commonRate(bonuses) == Add(Num(RateBase), bonuses.efficiency.rate)
commonFunding(inp, bonuses) ==
  Mul(eligibleCosts(inp), Div(commonRate(bonuses), Num(100)))
personalCostBase(inp) == Div(eligibleCosts(inp), units(inp))
maxPersonalBonusRate(bonuses) ==
  Sub(Num(MaxRateSelfOccupier), commonRate(bonuses))
finalPersonalBonusRateUncapped(bonuses) == personalBonusRate(bonuses)
finalPersonalBonusRate(bonuses) ==
  MathMin(personalBonusRate(bonuses), maxPersonalBonusRate(bonuses))
personalFunding(inp, bonuses) ==
  Mul(personalCostBase(inp), Div(finalPersonalBonusRate(bonuses), Num(100)))
userShareOfCommonUnweighted(inp, bonuses) == commonFunding(inp, bonuses)
userShareOfCommon(inp, bonuses) ==
  Mul(commonFunding(inp, bonuses), Div(inp.ownershipShare, Num(100)))

\* calcResult as it is returned, after the building-type branches.
calcResult(inp, bonuses) ==
  LET initial == [eligibleCosts |-> eligibleCosts(inp),
                  finalRate |-> finalRate(inp, bonuses),
                  bonuses |-> bonuses,
                  totalFunding |-> Num(0)]
      split == [commonFunding |-> commonFunding(inp, bonuses),
                personalFunding |-> personalFunding(inp, bonuses)]
  IN  IF inp.buildingType = "condominium_assoc"
        THEN [userShareOfCommon |-> userShareOfCommon(inp, bonuses)] @@ split
             @@ [initial EXCEPT !.totalFunding =
                   Add(userShareOfCommon(inp, bonuses), personalFunding(inp, bonuses))]
      ELSE IF inp.buildingType = "multi_family_home" /\ isSelfOccupier(inp)
        THEN split
             @@ [initial EXCEPT !.totalFunding =
                   Add(commonFunding(inp, bonuses), personalFunding(inp, bonuses))]
      ELSE [initial EXCEPT !.totalFunding =
              Mul(eligibleCosts(inp), Div(finalRate(inp, bonuses), Num(100)))]

\* Eigenanteil: the own contribution displayed below the result
ownContribution(inp, res) ==
  IF inp.buildingType = "condominium_assoc"
    THEN Sub(Mul(inp.totalCosts, Div(inp.ownershipShare, Num(100))), res.totalFunding)
    ELSE Sub(inp.totalCosts, res.totalFunding)

\* calculateFunding(): the error it sets and the value it returns.
calculateFunding(inp) ==
  LET msg == validationError(inp)
  IN  IF msg # ""
        THEN [error |-> msg, result |-> Null]
        ELSE [error |-> "", result |-> calcResult(inp, determineBonuses(inp))]

----------------------------------------------------------------------------
(* The inputs the calls are checked on *)

\* Battery sizes run over 0, 5, ..., 5 * MaxBatterySteps kWh.
MaxBatterySteps == 2

BatterySizes == {Num(5 * k) : k \in 0..MaxBatterySteps}

\* moderate with the entry of 2027 removed: a projected year without entry
co2ScheduleWithGap ==
  SubSeq(co2ScenariosModerate, 1, 2) \o SubSeq(co2ScenariosModerate, 4, 10)

\* out of order, one entry outside the projection, 2025..2027 and 2029.. missing
co2ScheduleUnordered == << Entry(2040, 300), Entry(2028, 76) >>

Co2Schedules ==
  {<< >>, co2ScenariosModerate, co2ScheduleWithGap, co2ScheduleUnordered}

CustomerSet ==
  [householdConsumption : {Num(0), Num(4000)},
   heatingConsumption : {Num(0), Num(24000)},
   hasECar : BOOLEAN,
   eCarKm : {Num(15000)},
   pvSize : {Num(0), Num(1), Num(10)},
   batterySize : BatterySizes,
   hasEMS : BOOLEAN,
   totalInvestment : {Num(35000)},
   electricityPrice : {Num(28)},
   gasPrice : {Num(0), Num(11)}]

ExpertSet ==
  [pvYieldPerKwp : {Num(0), Num(1000)},
   heatPumpJAZ : {Num(0), Num(4)},
   baseAutarky : {Num(30), Num(60)},
   batteryAutarkyBoost : {Num(25)},
   emsAutarkyBoost : {Num(15), Num(30)},
   feedInTariff : {Frac(786, 100)},
   electricityPriceIncrease : {Frac(125, 100)},
   gasPriceIncrease : {Num(2)},
   co2TaxSchedule : Co2Schedules,
   co2EmissionsGas : {Frac(24, 100)}]

\* The subsidy form's inputs: every option of each select, both checkbox
\* values, and numbers on both sides of each comparison of the code.
MaxUnits == 7
UnitCounts == {Num(0), Num(1), Num(2), Num(10)} \cup {Num(u) : u \in 6..MaxUnits}
FoerderInputSet ==
  [buildingType : {"", "single_family_home", "multi_family_home", "condominium_assoc"},
   residentialUnits : UnitCounts,
   selfUse : BOOLEAN,
   ownershipShare : {Num(0), Num(8), Num(100)},
   totalCosts : {Num(0 - 5000), Num(0), Num(20000), Num(120000)},
   heatPumpType : {"air", "ground", "water"},
   oldHeatingType : {"", "oel", "gasetagen", "kohle", "nachtspeicher",
                     "gaskessel", "biomasse", "other"},
   oldHeatingAge : {"", "older_20", "younger_20"},
   incomeBracket : {"over_40k", "under_40k"},
   naturalRefrigerant : BOOLEAN]

\* No call has returned yet.
NoCall == [called |-> FALSE]

\* JSON null: what JSON.stringify writes for NaN and Infinity
JsonNull == [k |-> "null", v |-> 0]

\* JSON.stringify / JSON.parse of one number
stringifyNumber(a) == IF IsFin(a) THEN a ELSE JsonNull

\* JSON.stringify(settings), as the value JSON.parse gives back
stringify(st) ==
  [f \in DOMAIN st |->
     IF f = "co2TaxSchedule"
       THEN [i \in 1..Len(st.co2TaxSchedule) |->
               [year |-> st.co2TaxSchedule[i].year,
                pricePerTon |-> stringifyNumber(st.co2TaxSchedule[i].pricePerTon)]]
       ELSE stringifyNumber(st[f])]

\* The module objects as shipped; defaultExpertSettings.co2TaxSchedule is the
\* array co2Scenarios.moderate itself.
shippedModule ==
  [defaultExpertSettings |-> defaultExpertSettings,
   moderate |-> co2ScenariosModerate]

\* defaultExpertSettings as read through the module objects
shippedSettings(sh) ==
  [sh.defaultExpertSettings EXCEPT !.co2TaxSchedule = sh.moderate]

\* useState<ExpertSettings>(defaultExpertSettings), an empty local store
adminInitial ==
  /\ settings = defaultExpertSettings
  /\ store = Null
  /\ shipped = shippedModule
  /\ mounted = FALSE

\* What parseFloat(e.target.value) hands to the field handlers, per field.
editedFields ==
  [pvYieldPerKwp |-> {Num(900), NaN},
   heatPumpJAZ |-> {Num(3)}]

\* The years and prices updateCO2Tax is called with; 2040 is not in the
\* schedule.
editedYears == {2025, 2034, 2040}
editedPrices == {Num(120), NaN}

\* co2TaxSchedule.map(item => item.year === year ? {...item, pricePerTon: price} : item)
mapPrice(schedule, year, price) ==
  [i \in 1..Len(schedule) |->
     IF schedule[i].year = year
       THEN [schedule[i] EXCEPT !.pricePerTon = price]
       ELSE schedule[i]]


Init ==
  /\ customerInputs \in CustomerSet
  /\ expertSettings \in ExpertSet
  /\ locals = NoCall
  /\ results = NoCall
  /\ inputs = initialInputs
  /\ result = Null
  /\ error = ""
  /\ adminInitial

\* const calc = calculateSystem(customerInputs, expertSettings)
Calculate ==
  /\ results = NoCall
  /\ LET l == calculateSystemLocals(customerInputs, expertSettings)
     IN  /\ locals' = l
         /\ results' = returnRecord(l)
  /\ UNCHANGED <<customerInputs, expertSettings>>
  /\ UNCHANGED kfwVars
  /\ UNCHANGED adminVars

Next == Calculate

Spec == Init /\ [][Next]_vars

\* The page's customer with investments on both sides of twenty times the
\* yearly savings.
EconomicsCustomerSet ==
  {[referenceCustomer EXCEPT !.hasECar = e, !.hasEMS = m, !.batterySize = b,
                             !.totalInvestment = Num(i)] :
     e \in BOOLEAN, m \in BOOLEAN, b \in BatterySizes,
     i \in {0, 35000, 95200, 95300, 95400, 95600}}

InitEconomics ==
  /\ customerInputs \in EconomicsCustomerSet
  /\ expertSettings = defaultExpertSettings
  /\ locals = NoCall
  /\ results = NoCall
  /\ inputs = initialInputs
  /\ result = Null
  /\ error = ""
  /\ adminInitial

SpecEconomics == InitEconomics /\ [][Next]_vars

\* The subsidy form filled in with any of FoerderInputSet, nothing calculated.
InitKfw ==
  /\ inputs \in FoerderInputSet
  /\ result = Null
  /\ error = ""
  /\ adminInitial
  /\ customerInputs = referenceCustomer
  /\ expertSettings = defaultExpertSettings
  /\ locals = NoCall
  /\ results = NoCall

\* handleCalculate: setResult(calculateFunding()), with the setError calls of
\* calculateFunding.
handleCalculate ==
  /\ LET r == calculateFunding(inputs)
     IN  /\ error' = r.error
         /\ result' = r.result
  /\ UNCHANGED inputs
  /\ UNCHANGED energyVars
  /\ UNCHANGED adminVars

NextKfw == handleCalculate

SpecKfw == InitKfw /\ [][NextKfw]_vars

\* The values the form's controls hand to handleInputChange, per field: the
\* options of each select, the checkbox values, and numbers as parseInt(...)
\* || 0 and parseFloat(...) || 0 deliver them.
FormValues ==
  [buildingType |-> {"", "single_family_home", "multi_family_home",
                     "condominium_assoc"},
   residentialUnits |-> {Num(1), Num(2)},
   selfUse |-> BOOLEAN,
   ownershipShare |-> {Num(0), Num(8)},
   totalCosts |-> {Num(0), Num(20000)},
   heatPumpType |-> {"air", "ground"},
   oldHeatingType |-> {"", "oel", "gaskessel"},
   oldHeatingAge |-> {"", "older_20"},
   incomeBracket |-> {"over_40k", "under_40k"},
   naturalRefrigerant |-> BOOLEAN]

\* The form as first rendered.
InitForm ==
  /\ inputs = initialInputs
  /\ result = Null
  /\ error = ""
  /\ adminInitial
  /\ customerInputs = referenceCustomer
  /\ expertSettings = defaultExpertSettings
  /\ locals = NoCall
  /\ results = NoCall

handleInputChangeKeepingResult ==
  /\ \E field \in DOMAIN FormValues : \E value \in FormValues[field] :
       inputs' = [inputs EXCEPT ![field] = value]
  /\ UNCHANGED <<result, error>>
  /\ UNCHANGED energyVars
  /\ UNCHANGED adminVars

\* handleInputChange(field, value): setInputs({...prev, [field]: value});
\* setResult(null)
handleInputChange ==
  /\ \E field \in DOMAIN FormValues : \E value \in FormValues[field] :
       inputs' = [inputs EXCEPT ![field] = value]
  /\ result' = Null
  /\ UNCHANGED error
  /\ UNCHANGED energyVars
  /\ UNCHANGED adminVars

NextForm == handleInputChange \/ handleCalculate

SpecForm == InitForm /\ [][NextForm]_vars

----------------------------------------------------------------------------

\* The settings page, opened with an empty local store.
InitAdmin ==
  /\ adminInitial
  /\ customerInputs = referenceCustomer
  /\ expertSettings = defaultExpertSettings
  /\ locals = NoCall
  /\ results = NoCall
  /\ inputs = initialInputs
  /\ result = Null
  /\ error = ""

\* useEffect(..., []): load the saved settings
mountEffect ==
  /\ ~mounted
  /\ mounted' = TRUE
  /\ settings' = (IF store # Null THEN store ELSE settings)
  /\ UNCHANGED <<store, shipped>>
  /\ UNCHANGED energyVars
  /\ UNCHANGED kfwVars

\* The page is left and opened again: useState(defaultExpertSettings)
remount ==
  /\ mounted
  /\ mounted' = FALSE
  /\ settings' = shippedSettings(shipped)
  /\ UNCHANGED <<store, shipped>>
  /\ UNCHANGED energyVars
  /\ UNCHANGED kfwVars

\* onChange of a field: setSettings({...settings, [field]: parseFloat(value)})
editField ==
  /\ mounted
  /\ \E field \in DOMAIN editedFields : \E value \in editedFields[field] :
       settings' = [settings EXCEPT ![field] = value]
  /\ UNCHANGED <<store, shipped, mounted>>
  /\ UNCHANGED energyVars
  /\ UNCHANGED kfwVars

updateCO2TaxInPlace(year, price) ==
  /\ mounted
  /\ settings' = [settings EXCEPT
                    !.co2TaxSchedule = mapPrice(settings.co2TaxSchedule, year, price)]
  /\ shipped' = [shipped EXCEPT !.moderate = mapPrice(shipped.moderate, year, price)]
  /\ UNCHANGED <<store, mounted>>
  /\ UNCHANGED energyVars
  /\ UNCHANGED kfwVars

updateCO2Tax(year, price) ==
  /\ mounted
  /\ settings' = [settings EXCEPT
                    !.co2TaxSchedule = mapPrice(settings.co2TaxSchedule, year, price)]
  /\ UNCHANGED <<store, shipped, mounted>>
  /\ UNCHANGED energyVars
  /\ UNCHANGED kfwVars

editCO2Price == \E year \in editedYears : \E price \in editedPrices :
  updateCO2Tax(year, price)

\* localStorage.setItem('expertSettings', JSON.stringify(settings))
handleSave ==
  /\ mounted
  /\ store' = stringify(settings)
  /\ UNCHANGED <<settings, shipped, mounted>>
  /\ UNCHANGED energyVars
  /\ UNCHANGED kfwVars

\* setSettings(defaultExpertSettings); localStorage.removeItem('expertSettings')
handleReset ==
  /\ mounted
  /\ settings' = shippedSettings(shipped)
  /\ store' = Null
  /\ UNCHANGED <<shipped, mounted>>
  /\ UNCHANGED energyVars
  /\ UNCHANGED kfwVars

NextAdmin ==
  \/ mountEffect
  \/ remount
  \/ editField
  \/ editCO2Price
  \/ handleSave
  \/ handleReset

SpecAdmin == InitAdmin /\ [][NextAdmin]_vars

----------------------------------------------------------------------------
(* Properties of calculateSystem *)

Called == results # NoCall

Zero == Num(0)

\* Every numeric customer input and every expert percentage is a number >= 0.
NonNegativeInputs ==
  /\ \A f \in {"householdConsumption", "heatingConsumption", "eCarKm", "pvSize",
               "batterySize", "totalInvestment", "electricityPrice", "gasPrice"} :
       Ge(customerInputs[f], Zero)
  /\ \A f \in {"pvYieldPerKwp", "baseAutarky", "batteryAutarkyBoost",
               "emsAutarkyBoost", "feedInTariff", "electricityPriceIncrease",
               "gasPriceIncrease", "co2EmissionsGas"} :
       Ge(expertSettings[f], Zero)
  /\ \A i \in 1..Len(expertSettings.co2TaxSchedule) :
       Ge(expertSettings.co2TaxSchedule[i].pricePerTon, Zero)

\* C1: for non-negative customer inputs and expert percentages the autarky
\* rate, as computed and as returned, lies in [0, 85], and the self-consumption,
\* as computed and as returned, never exceeds the PV production; it is a number
\* at most the PV production whenever the JAZ is positive.
C1_AutarkyAndSelfConsumptionBounded ==
  (Called /\ NonNegativeInputs) =>
    /\ Le(Zero, locals.autarkyRate) /\ Le(locals.autarkyRate, Num(85))
    /\ Le(Zero, results.autarkyRate) /\ Le(results.autarkyRate, Num(85))
    /\ ~Gt(locals.selfConsumption, locals.pvProduction)
    /\ ~Gt(results.selfConsumption, results.pvProduction)
    /\ Gt(expertSettings.heatPumpJAZ, Zero) =>
         /\ Le(locals.selfConsumption, locals.pvProduction)
         /\ Le(results.selfConsumption, results.pvProduction)

\* C1 witness: a call in which base + battery + EMS boost exceeds the ceiling
\* and the PV production limits the self-consumption of a household with battery.
C1_Witness ==
  /\ Called
  /\ Gt(Add(Add(expertSettings.baseAutarky, locals.batteryBoost), locals.emsBoost),
        Num(85))
  /\ locals.autarkyRate = Num(85)
  /\ Gt(customerInputs.batterySize, Zero)
  /\ Gt(locals.pvProduction, Zero)
  /\ Lt(locals.pvProduction,
        Mul(locals.totalElectricityDemand, Div(locals.autarkyRate, Num(100))))
  /\ Lt(locals.selfConsumption, locals.pvProduction)

\* The heat pump's JAZ is positive and the household has an electricity demand:
\* heatingConsumption / heatPumpJAZ and heatPumpConsumption / totalElectricityDemand
\* have non-zero divisors.
PositiveJazAndDemand ==
  /\ Gt(expertSettings.heatPumpJAZ, Zero)
  /\ Gt(locals.totalElectricityDemand, Zero)

\* C2 (as claimed): when the total yearly savings are <= 0 the returned
\* amortizationYears is not a finite number (a distinct not-amortizable
\* outcome); stated for calls with PV production, positive JAZ and demand.
C2_NotAmortizableIsDistinct ==
  (Called /\ NonNegativeInputs /\ PositiveJazAndDemand
     /\ Gt(locals.pvProduction, Zero)
     /\ Le(locals.totalYearlySavingsIncludingHeating, Zero)) =>
    ~IsFin(results.amortizationYears)

\* C3 (as claimed): when the PV production is 0 the returned selfConsumptionRate
\* is the number 0; stated for calls with positive JAZ and demand.
C3_ZeroProductionRateIsZero ==
  (Called /\ NonNegativeInputs /\ PositiveJazAndDemand
     /\ NumEq(locals.pvProduction, Zero)) =>
    NumEq(results.selfConsumptionRate, Zero)

\* The fields of the returned record that hold money or energy, profit excepted.
NonProfitFields ==
  {"yearlyElectricitySavings", "yearlyFeedInRevenue", "emsBonus",
   "yearlyHeatingSavings", "yearlyTotalSavings", "pvProduction",
   "selfConsumption", "feedIn", "autarkyRate", "selfConsumptionRate",
   "eCarConsumption", "heatPumpConsumption", "totalElectricityDemand",
   "gridElectricity", "amortizationYears"}

\* C4 (as claimed): for non-negative inputs with pvSize > 0 every returned
\* field but profitAfter20Years, and every entry of the heating table, is >= 0;
\* stated for calls with PV production, positive JAZ and demand.
C4_FieldsNonNegative ==
  (Called /\ NonNegativeInputs /\ PositiveJazAndDemand
     /\ Gt(customerInputs.pvSize, Zero) /\ Gt(locals.pvProduction, Zero)) =>
    /\ \A f \in NonProfitFields : Ge(results[f], Zero)
    /\ \A i \in 1..Len(results.heatingComparison) :
         /\ Ge(results.heatingComparison[i].gasCosts, Zero)
         /\ Ge(results.heatingComparison[i].heatPumpCosts, Zero)
         /\ Ge(results.heatingComparison[i].savings, Zero)

\* The battery size of the call in whole kWh.
BatteryKwh == customerInputs.batterySize.v \div SCALE

\* C5: the battery boost of the call is 0 for no battery, lies in [0, b], and
\* along the sizes 0, 1, ..., batterySize kWh the boost never decreases and
\* ends at the boost of the call; the same holds for the linear boost of the
\* other engine version.
C5_BatteryBoostMonotoneBounded ==
  Called =>
    LET b == expertSettings.batteryAutarkyBoost
    IN  /\ Le(Zero, locals.batteryBoost) /\ Le(locals.batteryBoost, b)
        /\ batteryBoost(Zero, b) = Zero
        /\ batteryBoostLinear(Zero, b) = Zero
        /\ batteryBoost(customerInputs.batterySize, b) = locals.batteryBoost
        /\ \A n \in 1..BatteryKwh :
             /\ Le(batteryBoost(Num(n - 1), b), batteryBoost(Num(n), b))
             /\ Le(batteryBoost(Num(n), b), b)
             /\ Le(batteryBoostLinear(Num(n - 1), b), batteryBoostLinear(Num(n), b))
             /\ Le(batteryBoostLinear(Num(n), b), b)

\* C5 witness: a call with a battery whose boost lies strictly between that of
\* a 1 kWh battery and b.
C5_Witness ==
  /\ Called
  /\ BatteryKwh > 1
  /\ Lt(batteryBoost(Num(1), expertSettings.batteryAutarkyBoost), locals.batteryBoost)
  /\ Lt(locals.batteryBoost, expertSettings.batteryAutarkyBoost)

\* The EMS boosts the expert settings range over.
EmsBoosts == {Num(15), Num(30)}

\* C6: without EMS the returned emsBonus is 0, the autarky rate is
\* min(baseAutarky + batteryBoost, 85), and a call that differs only in
\* emsAutarkyBoost returns the same record.
C6_NoEmsNoContribution ==
  (Called /\ ~customerInputs.hasEMS) =>
    /\ results.emsBonus = Zero
    /\ locals.autarkyRate =
         MathMin(Add(expertSettings.baseAutarky, locals.batteryBoost), Num(85))
    /\ \A other \in EmsBoosts :
         calculateSystem(customerInputs,
                         [expertSettings EXCEPT !.emsAutarkyBoost = other]) = results

\* C6 witness: a call without EMS, below the ceiling, with production and demand,
\* whose result would differ with EMS switched on.
C6_Witness ==
  /\ Called /\ ~customerInputs.hasEMS
  /\ Gt(locals.pvProduction, Zero) /\ Gt(locals.totalElectricityDemand, Zero)
  /\ Lt(locals.autarkyRate, Num(85))
  /\ calculateSystem([customerInputs EXCEPT !.hasEMS = TRUE], expertSettings).autarkyRate
       # results.autarkyRate

\* C7: the heating table has exactly 10 rows, for the years 2025, ..., 2034 in
\* this order, whatever the CO2 schedule.
C7_TenConsecutiveYears ==
  Called =>
    /\ Len(results.heatingComparison) = 10
    /\ \A i \in 1..Len(results.heatingComparison) :
         results.heatingComparison[i].year = 2024 + i
    /\ \A i \in 1..(Len(results.heatingComparison) - 1) :
         results.heatingComparison[i + 1].year = results.heatingComparison[i].year + 1

\* C7 witness: a call whose schedule is out of order, holds a year outside the
\* projection and lacks most projected years.
C7_Witness ==
  /\ Called
  /\ expertSettings.co2TaxSchedule = co2ScheduleUnordered
  /\ Gt(customerInputs.heatingConsumption, Zero)

\* The projected years (1-based) the CO2 schedule of the call has no entry for.
YearsWithoutEntry ==
  {y \in 1..ProjectionYears :
     FindYear(expertSettings.co2TaxSchedule, BaseYear + (y - 1)) = 0}

\* gasPrice/100 x (1 + gasPriceIncrease/100)^(y-1) x heatingConsumption, rounded
\* as the row is.
UntaxedGasCosts(y) ==
  MathRound(Mul(Mul(Div(customerInputs.gasPrice, Num(100)),
                    MathPow(Add(Num(1), Div(expertSettings.gasPriceIncrease, Num(100))),
                            y - 1)),
                customerInputs.heatingConsumption))

\* C8: for a projected year without schedule entry the row's gas cost is the
\* untaxed gas cost, a finite number, in calculateSystem and in
\* calculateHeatingScenario alike; and under the schedule with the 2027 gap
\* every other row equals the row computed under the full schedule.
C8_MissingYearZeroTax ==
  Called =>
    /\ \A y \in YearsWithoutEntry :
         /\ results.heatingComparison[y].gasCosts = UntaxedGasCosts(y)
         /\ IsFin(results.heatingComparison[y].gasCosts)
         /\ calculateHeatingScenario(customerInputs, expertSettings,
                                     expertSettings.co2TaxSchedule,
                                     ProjectionYears)[y].gasCosts
              = UntaxedGasCosts(y)
    /\ expertSettings.co2TaxSchedule = co2ScheduleWithGap =>
         LET full == calculateSystem(customerInputs,
                       [expertSettings EXCEPT !.co2TaxSchedule = co2ScenariosModerate])
         IN  \A y \in (1..ProjectionYears) \ YearsWithoutEntry :
               results.heatingComparison[y] = full.heatingComparison[y]

\* C8 witness: a call under the schedule with the 2027 gap, with heating and a
\* gas price, whose 2027 row is cheaper than under the full schedule while a
\* taxed year's row costs more than its untaxed gas cost.
C8_Witness ==
  /\ Called
  /\ expertSettings.co2TaxSchedule = co2ScheduleWithGap
  /\ YearsWithoutEntry = {3}
  /\ Gt(results.heatingComparison[3].gasCosts, Zero)
  /\ Lt(results.heatingComparison[3].gasCosts,
        calculateSystem(customerInputs,
          [expertSettings EXCEPT !.co2TaxSchedule = co2ScenariosModerate]
        ).heatingComparison[3].gasCosts)
  /\ Gt(results.heatingComparison[4].gasCosts, UntaxedGasCosts(4))

\* C9: the feed-in is never negative, as computed and as returned; whenever
\* production and self-consumption (after battery losses) are numbers, the
\* feed-in is the production minus that self-consumption if this is >= 0, and
\* 0 otherwise.
C9_FeedInIsSurplus ==
  Called =>
    /\ ~Lt(locals.feedIn, Zero)
    /\ ~Lt(results.feedIn, Zero)
    /\ (~IsNaN(locals.pvProduction) /\ ~IsNaN(locals.selfConsumption)) =>
         /\ Ge(locals.feedIn, Zero)
         /\ Ge(results.feedIn, Zero)
         /\ IF Le(locals.selfConsumption, locals.pvProduction)
              THEN Add(locals.feedIn, locals.selfConsumption) = locals.pvProduction
              ELSE locals.feedIn = Zero

\* C9 witness: a call with a battery whose losses lower the self-consumption
\* below the PV-limited value, leaving a positive feed-in.
C9_Witness ==
  /\ Called
  /\ Gt(customerInputs.batterySize, Zero)
  /\ Gt(locals.selfConsumption, Zero)
  /\ Lt(locals.selfConsumption,
        selfConsumptionInitial(locals.pvProduction, locals.totalElectricityDemand,
                               locals.autarkyRate))
  /\ Gt(locals.feedIn, Zero)
  /\ Gt(results.feedIn, Zero)

\* C11: for the reference customer with defaultExpertSettings the returned
\* yearlyTotalSavings is positive, the autarky rate is at most 85 and
\* amortizationYears is a finite number below 20.
C11_ReferenceScenario ==
  (Called /\ customerInputs = referenceCustomer
          /\ expertSettings = defaultExpertSettings) =>
    /\ Gt(results.yearlyTotalSavings, Zero)
    /\ Le(results.autarkyRate, Num(85))
    /\ IsFin(results.amortizationYears)
    /\ Lt(results.amortizationYears, Num(20))

\* C11 witness: the call for the reference customer has returned, with 67%
\* autarky and a payback time between 7 and 8 years.
C11_Witness ==
  /\ Called
  /\ customerInputs = referenceCustomer
  /\ expertSettings = defaultExpertSettings
  /\ results.autarkyRate = Num(67)
  /\ Gt(results.amortizationYears, Num(7))
  /\ Lt(results.amortizationYears, Num(8))

----------------------------------------------------------------------------
(* Properties of the subsidy calculator *)

\* handleCalculate has run: it leaves a result or an error message.
Calculated == result # Null
Rejected == result = Null /\ error # ""

AllBonusesGranted ==
  /\ result.bonuses.efficiency.granted
  /\ result.bonuses.speed.granted
  /\ result.bonuses.income.granted

\* The percentage sum 30 + efficiency + speed + income of the granted bonuses.
RawRate ==
  30 + (IF result.bonuses.efficiency.granted THEN 5 ELSE 0)
     + (IF result.bonuses.speed.granted THEN 20 ELSE 0)
     + (IF result.bonuses.income.granted THEN 30 ELSE 0)

RateCap == IF isSelfOccupier(inputs) THEN 70 ELSE 35

\* C12: for every validated input finalRate is the smaller of the raw sum
\* 30 + efficiency + speed + income and the cap (70 for a self-occupier, 35
\* for a landlord); a single-family self-occupier with all three bonuses (raw
\* 85) gets finalRate 70 and totalFunding = 0.70 * eligibleCosts.
C12_FinalRateCapped ==
  Calculated =>
    /\ result.finalRate = Num(IF RawRate < RateCap THEN RawRate ELSE RateCap)
    /\ (inputs.buildingType = "single_family_home" /\ AllBonusesGranted) =>
         /\ RawRate = 85
         /\ result.finalRate = Num(70)
         /\ result.totalFunding = Mul(result.eligibleCosts, Frac(70, 100))

C12_Witness ==
  /\ Calculated
  /\ inputs.buildingType = "single_family_home"
  /\ AllBonusesGranted
  /\ inputs.totalCosts = Num(20000)
  /\ result.finalRate = Num(70)
  /\ result.totalFunding = Num(14000)

\* The cost cap as a function of the number of residential units u >= 1.
CapOf(u) ==
  IF u = 1 THEN 30000
  ELSE IF u <= 6 THEN 30000 + 15000 * (u - 1)
  ELSE 105000 + 8000 * (u - 6)

\* The unit count the cap is taken for: 1 for a single-family house.
CountedUnits ==
  IF inputs.buildingType = "single_family_home" THEN 1
  ELSE inputs.residentialUnits.v \div SCALE

\* C13: eligibleCosts = min(totalCosts, cap(units)) with cap(1) = 30000,
\* cap(u) = 30000 + 15000 (u - 1) for 2 <= u <= 6 and cap(u) = 105000 +
\* 8000 (u - 6) above 6, units being 1 for a single-family house; eligibleCosts
\* never exceeds totalCosts and the cap never decreases with the unit count.
C13_EligibleCostsCapped ==
  Calculated =>
    /\ CountedUnits >= 1
    /\ result.eligibleCosts =
         (IF inputs.totalCosts.v < CapOf(CountedUnits) * SCALE
            THEN inputs.totalCosts ELSE Num(CapOf(CountedUnits)))
    /\ Le(result.eligibleCosts, inputs.totalCosts)
    /\ \A u \in 1..CountedUnits :
         /\ getMaxEligibleCosts(Num(u)) = Num(CapOf(u))
         /\ Le(getMaxEligibleCosts(Num(u)), getMaxEligibleCosts(Num(u + 1)))

C13_Witness ==
  /\ Calculated
  /\ inputs.buildingType = "multi_family_home"
  /\ inputs.residentialUnits = Num(7)
  /\ inputs.totalCosts = Num(120000)
  /\ result.eligibleCosts = Num(113000)

\* The six preconditions of a funding calculation, in the order tested.
PreBuildingType == inputs.buildingType # ""
PreTotalCosts == IsFin(inputs.totalCosts) /\ inputs.totalCosts.v > 0
PreUnits ==
  inputs.buildingType \in {"multi_family_home", "condominium_assoc"} =>
    (IsFin(inputs.residentialUnits) /\ inputs.residentialUnits.v >= 2 * SCALE)
PreOwnershipShare ==
  inputs.buildingType = "condominium_assoc" =>
    (IsFin(inputs.ownershipShare) /\ inputs.ownershipShare.v > 0)
PreOldHeatingType == isSelfOccupier(inputs) => inputs.oldHeatingType # ""
PreOldHeatingAge ==
  (isSelfOccupier(inputs) /\ inputs.oldHeatingType \in {"gaskessel", "biomasse"}) =>
    inputs.oldHeatingAge # ""

AllPreconditions ==
  /\ PreBuildingType /\ PreTotalCosts /\ PreUnits
  /\ PreOwnershipShare /\ PreOldHeatingType /\ PreOldHeatingAge

FirstViolatedMessage ==
  IF ~PreBuildingType THEN ErrBuildingType
  ELSE IF ~PreTotalCosts THEN ErrTotalCosts
  ELSE IF ~PreUnits THEN ErrUnits
  ELSE IF ~PreOwnershipShare THEN ErrOwnershipShare
  ELSE IF ~PreOldHeatingType THEN ErrOldHeating
  ELSE ErrOldHeatingAge

\* The fields every funding result carries.
ResultFields == {"eligibleCosts", "finalRate", "bonuses", "totalFunding"}

\* C14: calculateFunding produces a funding result if and only if all six
\* preconditions hold; otherwise it returns no result at all, with the message
\* of the first violated precondition in the order of the tests.
C14_ResultIffPreconditions ==
  (Calculated \/ Rejected) =>
    /\ Calculated <=> AllPreconditions
    /\ Calculated => (error = "" /\ ResultFields \subseteq DOMAIN result)
    /\ ~AllPreconditions => (result = Null /\ error = FirstViolatedMessage)

\* A rejection where several preconditions fail and the first one is reported.
C14_Witness ==
  /\ Rejected
  /\ PreBuildingType /\ ~PreTotalCosts /\ ~PreUnits /\ ~PreOldHeatingType
  /\ error = ErrTotalCosts

\* C15: a condominium-association input with ownershipShare = 0 and building
\* type, costs and unit count valid is rejected with the ownership-share
\* message and no result.
C15_ZeroShareRejected ==
  ( /\ Calculated \/ Rejected
    /\ inputs.buildingType = "condominium_assoc"
    /\ inputs.ownershipShare = Num(0)
    /\ PreTotalCosts /\ PreUnits ) =>
    /\ result = Null
    /\ error = ErrOwnershipShare

C15_Witness ==
  /\ Rejected
  /\ inputs.buildingType = "condominium_assoc"
  /\ inputs.ownershipShare = Num(0)
  /\ inputs.totalCosts = Num(20000)
  /\ inputs.residentialUnits = Num(6)
  /\ inputs.oldHeatingType = "oel"
  /\ error = ErrOwnershipShare

\* C16: isSelfOccupier is true exactly for a single-family house, a
\* condominium association, or a multi-family house with selfUse; it is false
\* for a multi-family landlord and for an unset building type.
C16_SelfOccupierClassification ==
  /\ isSelfOccupier(inputs) <=>
       \/ inputs.buildingType = "single_family_home"
       \/ inputs.buildingType = "condominium_assoc"
       \/ (inputs.buildingType = "multi_family_home" /\ inputs.selfUse = TRUE)
  /\ (inputs.buildingType = "multi_family_home" /\ inputs.selfUse = FALSE) =>
       ~isSelfOccupier(inputs)
  /\ inputs.buildingType = "" => ~isSelfOccupier(inputs)

\* A calculated landlord case: the landlord cap applies.
C16_Witness ==
  /\ Calculated
  /\ inputs.buildingType = "multi_family_home" /\ inputs.selfUse = FALSE
  /\ ~isSelfOccupier(inputs)
  /\ inputs.oldHeatingType = ""
  /\ result.finalRate = Num(30)

Landlord == inputs.buildingType = "multi_family_home" /\ inputs.selfUse = FALSE

\* C17: for a multi-family landlord no bonus is granted: speed and income are
\* denied with the self-occupier-only reason, efficiency is denied even for a
\* ground/water source or natural refrigerant, every rate is 0, finalRate is
\* exactly 30, totalFunding = 0.30 * min(totalCosts, cap(units)) and the
\* result has no common/personal split fields.
C17_LandlordBaseRateOnly ==
  (Calculated /\ Landlord) =>
    /\ ~result.bonuses.efficiency.granted
    /\ ~result.bonuses.speed.granted
    /\ ~result.bonuses.income.granted
    /\ result.bonuses.speed.reason = ReasonSelfOccupierOnly
    /\ result.bonuses.income.reason = ReasonSelfOccupierOnly
    /\ result.bonuses.efficiency.rate = Num(0)
    /\ result.bonuses.speed.rate = Num(0)
    /\ result.bonuses.income.rate = Num(0)
    /\ result.finalRate = Num(30)
    /\ result.totalFunding =
         Mul((IF inputs.totalCosts.v < CapOf(CountedUnits) * SCALE
                THEN inputs.totalCosts ELSE Num(CapOf(CountedUnits))),
             Frac(30, 100))
    /\ DOMAIN result = ResultFields

\* Six rented units, a ground source and natural refrigerant: 30% of 105000.
C17_Witness ==
  /\ Calculated /\ Landlord
  /\ inputs.residentialUnits = Num(6)
  /\ inputs.totalCosts = Num(120000)
  /\ inputs.heatPumpType = "ground" /\ inputs.naturalRefrigerant
  /\ inputs.oldHeatingType = "oel" /\ inputs.incomeBracket = "under_40k"
  /\ result.eligibleCosts = Num(105000)
  /\ result.totalFunding = Num(31500)

\* The speed-bonus rule for prior heating type t and age bracket a.
SpeedRule(t, a) ==
  \/ t \in {"oel", "gasetagen", "kohle", "nachtspeicher"}
  \/ (t \in {"gaskessel", "biomasse"} /\ a = "older_20")

AgeBrackets == {"", "older_20", "younger_20"}

\* C18: for a self-occupier the speed bonus (20%) is granted if and only if
\* the prior heating type is oil, gas-floor, coal or night-storage, or it is
\* gas-boiler or biomass with age bracket "older_20"; the age bracket has no
\* influence for any other type, and type "other" is never granted.
C18_SpeedBonusRule ==
  isSelfOccupier(inputs) =>
    LET b == determineBonuses(inputs).speed
    IN  /\ b.granted <=> SpeedRule(inputs.oldHeatingType, inputs.oldHeatingAge)
        /\ b.rate = (IF b.granted THEN Num(20) ELSE Num(0))
        /\ inputs.oldHeatingType \notin {"gaskessel", "biomasse"} =>
             \A a \in AgeBrackets :
               determineBonuses([inputs EXCEPT !.oldHeatingAge = a]).speed = b
        /\ inputs.oldHeatingType = "other" => ~b.granted
        /\ Calculated => result.bonuses.speed = b

\* A calculated self-occupier with a gas boiler younger than 20 years.
C18_Witness ==
  /\ Calculated /\ isSelfOccupier(inputs)
  /\ inputs.oldHeatingType = "gaskessel"
  /\ inputs.oldHeatingAge = "younger_20"
  /\ ~result.bonuses.speed.granted
  /\ result.bonuses.speed.rate = Num(0)

\* C19: the efficiency bonus (5%) is granted if and only if the applicant is
\* a self-occupier and the heat source is ground or water or a natural
\* refrigerant is used; when not granted its rate is 0 and a denial reason is
\* present.
C19_EfficiencyBonusRule ==
  LET b == determineBonuses(inputs).efficiency
  IN  /\ b.granted <=>
           /\ isSelfOccupier(inputs)
           /\ (inputs.heatPumpType \in {"ground", "water"}
               \/ inputs.naturalRefrigerant)
      /\ b.granted => b.rate = Num(5)
      /\ ~b.granted => (b.rate = Num(0) /\ b.reason \notin {Undefined, ""})
      /\ Calculated => result.bonuses.efficiency = b

\* An air-source pump with natural refrigerant, calculated for an owner.
C19_Witness ==
  /\ Calculated
  /\ inputs.buildingType = "single_family_home"
  /\ inputs.heatPumpType = "air" /\ inputs.naturalRefrigerant
  /\ result.bonuses.efficiency.granted
  /\ result.bonuses.efficiency.rate = Num(5)

\* C20: for a self-occupier the income bonus (30%) is granted if and only if
\* the income bracket is "under_40k"; otherwise its rate is 0 with the income
\* denial reason.
C20_IncomeBonusRule ==
  isSelfOccupier(inputs) =>
    LET b == determineBonuses(inputs).income
    IN  /\ b.granted <=> inputs.incomeBracket = "under_40k"
        /\ b.granted => b.rate = Num(30)
        /\ ~b.granted => (b.rate = Num(0) /\ b.reason = ReasonIncome)
        /\ Calculated => result.bonuses.income = b

C20_Witness ==
  /\ Calculated /\ isSelfOccupier(inputs)
  /\ inputs.incomeBracket = "over_40k"
  /\ result.bonuses.income.rate = Num(0)
  /\ result.bonuses.income.reason = ReasonIncome

OwnerOccupiedMultiFamily ==
  inputs.buildingType = "multi_family_home" /\ inputs.selfUse = TRUE

\* The granted percentages of the displayed result.
EfficiencyPercent == IF result.bonuses.efficiency.granted THEN 5 ELSE 0
PersonalPercent ==
  (IF result.bonuses.speed.granted THEN 20 ELSE 0)
    + (IF result.bonuses.income.granted THEN 30 ELSE 0)
CommonPercent == 30 + EfficiencyPercent
AppliedPersonalPercent ==
  IF PersonalPercent < 70 - CommonPercent THEN PersonalPercent
  ELSE 70 - CommonPercent

\* The common and the personal part as the split rule states them.
ExpectedCommonFunding == Mul(result.eligibleCosts, Frac(CommonPercent, 100))
ExpectedPersonalFunding ==
  Mul(Div(result.eligibleCosts, Num(CountedUnits)),
      Frac(AppliedPersonalPercent, 100))

\* C21: for an owner-occupied multi-family home commonFunding = eligibleCosts
\* * (30 + efficiency)/100, personalFunding = (eligibleCosts / units) *
\* min(speed + income, 70 - (30 + efficiency))/100 and totalFunding is their
\* sum; the common rate plus the applied personal rate never exceeds 70, so
\* totalFunding <= 0.70 * eligibleCosts.
C21_OwnerOccupiedSplit ==
  (Calculated /\ OwnerOccupiedMultiFamily) =>
    /\ result.commonFunding = ExpectedCommonFunding
    /\ result.personalFunding = ExpectedPersonalFunding
    /\ result.totalFunding = Add(result.commonFunding, result.personalFunding)
    /\ CommonPercent + AppliedPersonalPercent <= 70
    /\ Le(result.totalFunding, Mul(result.eligibleCosts, Frac(70, 100)))

\* Two units, all bonuses: 35% of 45000 plus the capped 35% of 22500.
C21_Witness ==
  /\ Calculated /\ OwnerOccupiedMultiFamily
  /\ inputs.residentialUnits = Num(2)
  /\ inputs.totalCosts = Num(120000)
  /\ AllBonusesGranted
  /\ result.commonFunding = Num(15750)
  /\ result.personalFunding = Num(7875)
  /\ result.totalFunding = Num(23625)

\* The same inputs evaluated as an owner-occupied multi-family home.
AsOwnerOccupiedMultiFamily ==
  calculateFunding([inputs EXCEPT !.buildingType = "multi_family_home",
                                  !.selfUse = TRUE])

\* C22: for a condominium association totalFunding = (ownershipShare/100) *
\* commonFunding + personalFunding with the common/personal split of the
\* owner-occupied multi-family case; with ownershipShare < 100 the total is
\* strictly less than that of the same input evaluated as an owner-occupied
\* multi-family home.
C22_CondominiumShare ==
  (Calculated /\ inputs.buildingType = "condominium_assoc") =>
    /\ result.commonFunding = ExpectedCommonFunding
    /\ result.personalFunding = ExpectedPersonalFunding
    /\ result.userShareOfCommon =
         Mul(result.commonFunding, Div(inputs.ownershipShare, Num(100)))
    /\ result.totalFunding =
         Add(result.userShareOfCommon, result.personalFunding)
    /\ AsOwnerOccupiedMultiFamily.result # Null
    /\ result.commonFunding = AsOwnerOccupiedMultiFamily.result.commonFunding
    /\ result.personalFunding = AsOwnerOccupiedMultiFamily.result.personalFunding
    /\ Lt(inputs.ownershipShare, Num(100)) =>
         Lt(result.totalFunding, AsOwnerOccupiedMultiFamily.result.totalFunding)

\* An 8% share of a ten-unit building.
C22_Witness ==
  /\ Calculated /\ inputs.buildingType = "condominium_assoc"
  /\ inputs.ownershipShare = Num(8)
  /\ inputs.residentialUnits = Num(10)
  /\ inputs.totalCosts = Num(120000)
  /\ ~result.bonuses.efficiency.granted
  /\ result.commonFunding = Num(36000)
  /\ result.userShareOfCommon = Num(2880)
  /\ Lt(result.totalFunding, AsOwnerOccupiedMultiFamily.result.totalFunding)

----------------------------------------------------------------------------
(* Further properties of calculateSystem *)

\* base: the self-consumption before storage losses, from the call's values.
BaseSelfConsumption ==
  MathMin(locals.pvProduction,
          Mul(locals.totalElectricityDemand, Div(locals.autarkyRate, Num(100))))

\* 0.10 * min(batterySize * 365, 0.60 * base)
StorageLoss ==
  Mul(MathMin(Mul(customerInputs.batterySize, Num(365)),
              Mul(BaseSelfConsumption, Frac(60, 100))),
      Frac(10, 100))

\* 0.10 * 0.60 * base, the 6% of base
SixPercentOfBase == Mul(Mul(BaseSelfConsumption, Frac(60, 100)), Frac(10, 100))

\* C23: with batterySize > 0 the self-consumption is base - 0.10 *
\* min(batterySize * 365, 0.60 * base), base being min(pvProduction,
\* totalElectricityDemand * autarkyRate / 100); with batterySize = 0 it is
\* base. The loss never exceeds 6% of base and the self-consumption stays
\* within [0.94 * base, base].
C23_StorageLosses ==
  (Called /\ NonNegativeInputs) =>
    /\ Gt(customerInputs.batterySize, Zero) =>
         locals.selfConsumption = Sub(BaseSelfConsumption, StorageLoss)
    /\ customerInputs.batterySize = Zero =>
         locals.selfConsumption = BaseSelfConsumption
    /\ ~Gt(StorageLoss, SixPercentOfBase)
    /\ ~Lt(locals.selfConsumption, Sub(BaseSelfConsumption, SixPercentOfBase))
    /\ ~Gt(locals.selfConsumption, BaseSelfConsumption)
    /\ IsFin(BaseSelfConsumption) =>
         /\ Le(StorageLoss, SixPercentOfBase)
         /\ Le(Sub(BaseSelfConsumption, SixPercentOfBase), locals.selfConsumption)
         /\ Le(locals.selfConsumption, BaseSelfConsumption)

\* A call in which the battery's yearly throughput, not 60% of base, limits
\* the loss.
C23_Witness ==
  /\ Called /\ NonNegativeInputs
  /\ customerInputs.batterySize = Num(5)
  /\ IsFin(BaseSelfConsumption)
  /\ Lt(Mul(customerInputs.batterySize, Num(365)),
        Mul(BaseSelfConsumption, Frac(60, 100)))
  /\ StorageLoss = Frac(1825, 10)
  /\ locals.selfConsumption = Sub(BaseSelfConsumption, Frac(1825, 10))

\* The mean of the ten yearly heating savings of the returned table.
MeanHeatingSavings ==
  Div(SumSavings(results.heatingComparison, Len(results.heatingComparison)),
      Num(10))

\* Electricity savings + feed-in revenue + mean heating savings, unrounded.
SavingsSum ==
  Add(Add(locals.yearlyElectricitySavings, locals.yearlyFeedInRevenue),
      MeanHeatingSavings)

\* C24: the returned yearlyTotalSavings is the rounded sum of electricity
\* savings, feed-in revenue and the mean of the 10 yearly heating savings;
\* emsBonus is reported separately and not added, and amortizationYears and
\* profitAfter20Years derive from the same sum (profit = 20 * sum -
\* totalInvestment).
C24_TotalSavingsComposition ==
  Called =>
    /\ Len(results.heatingComparison) = 10
    /\ results.yearlyTotalSavings = MathRound(SavingsSum)
    /\ results.emsBonus = MathRound(locals.emsBonus)
    /\ results.amortizationYears =
         Div(MathRound(Mul(Div(customerInputs.totalInvestment, SavingsSum),
                           Num(10))),
             Num(10))
    /\ results.profitAfter20Years =
         MathRound(Sub(Mul(SavingsSum, Num(20)), customerInputs.totalInvestment))

\* A call with a positive EMS bonus that is not part of the total.
C24_Witness ==
  /\ Called
  /\ customerInputs = referenceCustomer
  /\ expertSettings = defaultExpertSettings
  /\ results.emsBonus = Num(420)
  /\ results.yearlyElectricitySavings = Num(1763)
  /\ results.yearlyFeedInRevenue = Num(291)
  /\ results.yearlyHeatingSavings = Num(2711)
  /\ results.yearlyTotalSavings = Num(4765)
  /\ Gt(results.profitAfter20Years, Num(60000))
  /\ Lt(results.profitAfter20Years, Num(60500))

\* Every entry of the returned heating table is a finite number.
HeatingTableFinite ==
  \A i \in 1..Len(results.heatingComparison) :
    /\ IsFin(results.heatingComparison[i].gasCosts)
    /\ IsFin(results.heatingComparison[i].heatPumpCosts)
    /\ IsFin(results.heatingComparison[i].savings)

\* C28 (as claimed): for pvSize > 0, heatPumpJAZ > 0 and all other numeric
\* inputs non-negative every gasCosts, heatPumpCosts and savings entry of the
\* heating table is a finite number, also when the total electricity demand
\* is 0.
C28_HeatingTableFinite ==
  (Called /\ NonNegativeInputs
     /\ Gt(customerInputs.pvSize, Zero)
     /\ Gt(expertSettings.heatPumpJAZ, Zero)) =>
    HeatingTableFinite

SavingsPositive ==
  Called /\ NonNegativeInputs
    /\ Gt(locals.totalYearlySavingsIncludingHeating, Zero)

C26_OwnContributionNonNegative ==
  Calculated => Ge(ownContribution(inputs, result), Num(0))

\* The values each field of the form's inputs is varied over.
FieldValues ==
  [residentialUnits |-> UnitCounts,
   selfUse |-> BOOLEAN,
   ownershipShare |-> {Num(0), Num(8), Num(100)},
   heatPumpType |-> {"air", "ground", "water"},
   naturalRefrigerant |-> BOOLEAN,
   oldHeatingType |-> {"", "oel", "gasetagen", "kohle", "nachtspeicher",
                       "gaskessel", "biomasse", "other"},
   oldHeatingAge |-> {"", "older_20", "younger_20"},
   incomeBracket |-> {"over_40k", "under_40k"}]

\* The fields whose controls are hidden or disabled for the current selection.
HiddenFields ==
  (IF inputs.buildingType = "single_family_home"
     THEN {"residentialUnits", "selfUse", "ownershipShare"} ELSE {})
  \cup (IF inputs.buildingType = "multi_family_home"
          THEN {"ownershipShare"} ELSE {})
  \cup (IF inputs.buildingType = "condominium_assoc" THEN {"selfUse"} ELSE {})
  \cup (IF Landlord
          THEN {"heatPumpType", "naturalRefrigerant", "oldHeatingType",
                "oldHeatingAge", "incomeBracket"}
          ELSE {})
  \cup (IF inputs.oldHeatingType \notin {"gaskessel", "biomasse"}
          THEN {"oldHeatingAge"} ELSE {})

\* C27: the outcome of calculateFunding (result and error) does not depend on
\* the fields hidden or disabled for the current selection: residentialUnits,
\* selfUse and ownershipShare for a single-family home; ownershipShare for
\* multi-family; selfUse for a condominium; heat-pump type, refrigerant flag,
\* prior heating type/age and income bracket for a multi-family landlord; the
\* age bracket when the prior heating type is not gas-boiler or biomass.
C27_HiddenFieldsIrrelevant ==
  (Calculated \/ Rejected) =>
    \A f \in HiddenFields : \A v \in FieldValues[f] :
      calculateFunding([inputs EXCEPT ![f] = v]) =
        [error |-> error, result |-> result]

\* A single-family result calculated with stale values in the hidden fields.
C27_Witness ==
  /\ Calculated
  /\ inputs.buildingType = "single_family_home"
  /\ inputs.residentialUnits = Num(10)
  /\ inputs.selfUse = FALSE
  /\ inputs.ownershipShare = Num(0)
  /\ inputs.totalCosts = Num(120000)
  /\ result.eligibleCosts = Num(30000)

----------------------------------------------------------------------------
(* Properties of the subsidy form *)

\* A displayed result is the funding of the current inputs, without error.
DisplayedResultIsCurrent ==
  result # Null =>
    /\ result = calculateFunding(inputs).result
    /\ error = ""

\* A step that changes an input clears the result; a calculation on inputs
\* that fail validation leaves none.
EditOrFailureClearsResult ==
  /\ inputs' # inputs => result' = Null
  /\ (inputs' = inputs /\ ~AllPreconditions) => result' = Null

\* C25: in the subsidy form, after any sequence of input edits and calculate
\* clicks, a displayed result is the funding computed from the current inputs
\* and the error message is empty; every input edit clears the displayed
\* result, and a failed calculation leaves no result displayed.
C25_DisplayedResultCurrent ==
  /\ []DisplayedResultIsCurrent
  /\ [][EditOrFailureClearsResult]_vars

\* A result displayed after edits.
C25_Witness ==
  /\ result # Null /\ error = ""
  /\ inputs.buildingType = "condominium_assoc"
  /\ inputs.residentialUnits = Num(2)
  /\ inputs.ownershipShare = Num(8)
  /\ inputs.totalCosts = Num(20000)
  /\ inputs.oldHeatingType = "gaskessel" /\ inputs.oldHeatingAge = "older_20"

----------------------------------------------------------------------------
(* Properties of the settings page *)

\* The module objects are as shipped.
ShippedUntouched ==
  /\ shipped.defaultExpertSettings = defaultExpertSettings
  /\ shipped.moderate = co2ScenariosModerate

\* A reset step ends with the shipped defaults in memory and no store entry.
ResetRestoresDefaults ==
  handleReset =>
    /\ settings' = defaultExpertSettings
    /\ settings'.co2TaxSchedule = co2ScenariosModerate
    /\ store' = Null

\* A CO2-price edit for a year keeps the schedule's length, order and years
\* and every other setting, and changes at most the pricePerTon of the
\* entries of that year.
PriceEditIsLocal ==
  \A year \in editedYears : \A price \in editedPrices :
    updateCO2Tax(year, price) =>
      /\ Len(settings'.co2TaxSchedule) = Len(settings.co2TaxSchedule)
      /\ \A i \in 1..Len(settings.co2TaxSchedule) :
           /\ settings'.co2TaxSchedule[i].year = settings.co2TaxSchedule[i].year
           /\ settings'.co2TaxSchedule[i].pricePerTon =
                (IF settings.co2TaxSchedule[i].year = year THEN price
                 ELSE settings.co2TaxSchedule[i].pricePerTon)
      /\ \A f \in DOMAIN settings \ {"co2TaxSchedule"} : settings'[f] = settings[f]

\* C29: in the settings page, after any sequence of field edits, CO2-price
\* edits and saves, a reset leaves the in-memory settings equal to the shipped
\* defaultExpertSettings (with the original moderate CO2 schedule) and the
\* 'expertSettings' entry absent from the local store; edits never alter
\* defaultExpertSettings or co2Scenarios.moderate themselves, and a CO2-price
\* edit changes only the pricePerTon of the entry for that year, keeping the
\* schedule's length, order and years.
C29_ResetRestoresShippedDefaults ==
  /\ []ShippedUntouched
  /\ [][ResetRestoresDefaults /\ PriceEditIsLocal]_vars

\* Settings edited (a price, and a field emptied), saved and loaded again from
\* the store, where a reset finds them.
C29_Witness ==
  /\ mounted
  /\ store # Null
  /\ store.co2TaxSchedule[1].pricePerTon = Num(120)
  /\ store.pvYieldPerKwp = JsonNull
  /\ settings = store
  /\ settings # defaultExpertSettings
  /\ ENABLED handleReset

====
